---------------------------- MODULE Spec2Model ----------------------------
(***************************************************************************)
(* Model of src/Wavefront/wavecorr_new.py: the linear radial-bin two-point *)
(* estimators PhaseCorrelation.process_linear_xi / process_linear_D, the   *)
(* temporal lag estimator struct_dt and the converter corr2struct.         *)
(*                                                                         *)
(* Reading of the source.  The file does not resolve all its names; each   *)
(* unresolved name is read as the name it evidently stands for:            *)
(*   nbins (215, 268) -> self.nbins;  bin_limits (216, 269) -> rlimits;    *)
(*   D_sample (300) -> D_samples;  `if bootstrap = True` -> `==`;          *)
(*   self.r / self.D / self.varD (251, 302-304) -> self._r, self._D,       *)
(*   self._varD;  BallTree, leastsq -> the sklearn / scipy functions.      *)
(* Everything else is modelled as written.                                 *)
(*                                                                         *)
(* Library behaviour the source relies on:                                 *)
(*   np.linspace(a, b, n): n points, a + k*(b-a)/(n-1); [a] for n = 1;     *)
(*       empty for n = 0.                                                  *)
(*   tree.query_radius(p, r): the indices at distance <= r of p.           *)
(*   np.setxor1d / np.setdiff1d: sorted unique symmetric difference /      *)
(*       difference.                                                       *)
(*   mean and var of an empty array: nan (a warning, no exception).        *)
(*   KDTree / BallTree on an array with no sample: ValueError.             *)
(*   leastsq with fewer data points than parameters: TypeError.            *)
(*                                                                         *)
(* Real numbers are exact rationals <<p, q>> in lowest terms with q > 0;   *)
(* nan is <<0, 0>>.  Distances are compared through their squares.         *)
(***************************************************************************)
EXTENDS Integers, Sequences, FiniteSets

(***************************************************************************)
(* Bounds of the model.                                                    *)
(***************************************************************************)
MaxN == 3
MaxBins == 3
MaxLen == 4
\* length of the series of the struct_dt specification
MaxSeries == 4
\* coordinates of the points of a 2-D catalog, times of a series, values
Coords == 0..1
Times == 0..2
Vals == {-1, 1}
XiVals == {-1, 0, 1}
VarVals == {0, 1}

(***************************************************************************)
(* Rational arithmetic.                                                    *)
(***************************************************************************)
Abs(a) == IF a < 0 THEN -a ELSE a

RECURSIVE GCD(_, _)
GCD(a, b) == IF b = 0 THEN a ELSE GCD(b, a % b)

NaN == <<0, 0>>

IsNaN(f) == f[2] = 0

Frac(p, q) ==
    IF q = 0 THEN NaN
    ELSE LET g == GCD(Abs(p), Abs(q))
             s == IF q < 0 THEN -1 ELSE 1
         IN  <<(s * p) \div g, (s * q) \div g>>

FInt(n) == <<n, 1>>

FAdd(a, b) == IF IsNaN(a) \/ IsNaN(b) THEN NaN
              ELSE Frac(a[1] * b[2] + b[1] * a[2], a[2] * b[2])

FSub(a, b) == IF IsNaN(a) \/ IsNaN(b) THEN NaN
              ELSE Frac(a[1] * b[2] - b[1] * a[2], a[2] * b[2])

FMul(a, b) == IF IsNaN(a) \/ IsNaN(b) THEN NaN
              ELSE Frac(a[1] * b[1], a[2] * b[2])

\* a / n for an integer n; 0/0 and x/0 are nan here (only 0/0 arises)
FDivInt(a, n) == IF IsNaN(a) THEN NaN ELSE Frac(a[1], a[2] * n)

FLess(a, b) == a[1] * b[2] < b[1] * a[2]

FLeq(a, b) == a[1] * b[2] <= b[1] * a[2]

RECURSIVE FSum(_)
FSum(s) == IF s = << >> THEN FInt(0) ELSE FAdd(s[1], FSum(Tail(s)))

\* a mean that is 0 for an empty array
mean_or_zero(s) == IF Len(s) = 0 THEN FInt(0) ELSE FDivInt(FSum(s), Len(s))

\* ndarray.mean(): nan for an empty array
mean(s) == IF Len(s) = 0 THEN NaN ELSE FDivInt(FSum(s), Len(s))

\* ndarray.var(): population variance (ddof = 0), nan for an empty array
var(s) ==
    IF Len(s) = 0 THEN NaN
    ELSE LET m == mean(s)
         IN  mean([n \in 1..Len(s) |-> FMul(FSub(s[n], m), FSub(s[n], m))])

(***************************************************************************)
(* numpy helpers.                                                          *)
(***************************************************************************)
\* np.linspace with endpoint=False
linspace_noendpoint(start, stop, num) ==
    [n \in 1..num |-> FAdd(start, FDivInt(FMul(FInt(n - 1), FSub(stop, start)), num))]

\* np.linspace(start, stop, num) for num >= 0
linspace(start, stop, num) ==
    IF num = 0 THEN << >>
    ELSE IF num = 1 THEN <<start>>
    ELSE [n \in 1..num |->
            FAdd(start, FDivInt(FMul(FInt(n - 1), FSub(stop, start)), num - 1))]

\* [(limits[i], limits[i+1]) for i in range(len(limits)-1)]
BinsOf(limits) ==
    IF Len(limits) = 0 THEN << >>
    ELSE [n \in 1..(Len(limits) - 1) |-> <<limits[n], limits[n + 1]>>]

\* (bin[0]+bin[1])/2.
Mid(bin) == FDivInt(FAdd(bin[1], bin[2]), 2)

\* np.zeros(n)
zeros(n) == [m \in 1..n |-> FInt(0)]

setxor1d(a, b) == (a \ b) \cup (b \ a)

setdiff1d(a, b) == a \ b

\* the elements of a set of integers in increasing order (numpy set results are sorted)
RECURSIVE Sorted(_)
Sorted(S) ==
    IF S = {} THEN << >>
    ELSE LET m == CHOOSE a \in S : \A b \in S : a <= b
         IN  <<m>> \o Sorted(S \ {m})

(***************************************************************************)
(* The spatial index.                                                      *)
(***************************************************************************)
\* squared city-block distance
Dist2_cityblock(p, q) ==
    LET RECURSIVE Acc(_)
        Acc(n) == IF n = 0 THEN 0 ELSE Abs(p[n] - q[n]) + Acc(n - 1)
    IN  Acc(Len(p)) * Acc(Len(p))

\* squared Euclidean distance of two coordinate tuples
Dist2(p, q) ==
    LET RECURSIVE Acc(_)
        Acc(n) == IF n = 0 THEN 0
                  ELSE (p[n] - q[n]) * (p[n] - q[n]) + Acc(n - 1)
    IN  Acc(Len(p))

\* dist <= rad, for an exact radius rad = <<p, q>>
WithinRadius(d2, rad) == rad[1] >= 0 /\ d2 * rad[2] * rad[2] <= rad[1] * rad[1]

\* query_radius with dist < rad
query_radius_strict(pts, j, rad) ==
    {n \in 1..Len(pts) :
        rad[1] > 0 /\ Dist2(pts[j], pts[n]) * rad[2] * rad[2] < rad[1] * rad[1]}

\* tree.query_radius(pts[j], rad): indices of the points within rad of point j
query_radius(pts, j, rad) ==
    {n \in 1..Len(pts) : WithinRadius(Dist2(pts[j], pts[n]), rad)}


(***************************************************************************)
(* State.                                                                  *)
(*   op                       the entry point that was called              *)
(*   pc, err                  position in it; the exception it raised      *)
(*   data, k                  the catalog (cat1.x/cat1.y, cat1.k), or the  *)
(*                            series T, Y of struct_dt                     *)
(*   min_sep, max_sep, nbins  the estimator's configuration;               *)
(*                            maxr, npoints for struct_dt                  *)
(*   rbins                    the bins built (rbins / bins)                *)
(*   i                        number of bins the outer loop has done       *)
(*   shells, samples          per bin done: each point's shell, and the    *)
(*                            sample list (xi_samples / D_samples / S)     *)
(*   stat, varstat, r         the result vectors (xi, varxi, r / D, varD,  *)
(*                            r / S_r, -, R)                               *)
(*   self                     the estimator's stored results               *)
(*   c_r, c_xi, c_varxi, num_points, c_pc, c_err, ret                      *)
(*                            corr2struct: arguments, outcome, return value*)
(***************************************************************************)
VARIABLES op, pc, err, data, k, min_sep, max_sep, nbins, maxr, npoints,
          rbins, i, shells, samples, stat, varstat, r, self,
          c_r, c_xi, c_varxi, num_points, c_pc, c_err, ret

cat == <<op, data, k, min_sep, max_sep, nbins, maxr, npoints>>
est == <<pc, err, rbins, i, shells, samples, stat, varstat, r, self>>
c2s == <<c_r, c_xi, c_varxi, num_points, c_pc, c_err, ret>>
vars == <<cat, est, c2s>>

\* the value pairings of the two linear estimators (lines 236 and 289)
xi_pair(a, b) == a * b

D_pair(a, b) == (a - b) * (a - b)

pair_fn(o, a, b) == IF o = "xi" THEN xi_pair(a, b) ELSE D_pair(a, b)

(***************************************************************************)
(* process_linear_xi / process_linear_D (bootstrap = False).               *)
(***************************************************************************)
\* lines 215-216 / 268-269: rlimits = np.linspace(min_sep, max_sep, nbins)
linear_rbins(lo, hi, n) == BinsOf(linspace(lo, hi, n))

\* the shell without the inner query taken out
linear_shell_high(pts, j, rbin) == query_radius(pts, j, rbin[2])

\* lines 231-233 / 284-286: the shell of point j in bin rbin
linear_shell(pts, j, rbin) ==
    LET high == query_radius(pts, j, rbin[2])
        low == query_radius(pts, j, rbin[1])
    IN  setxor1d(high, low)

\* point_samples taking each unordered pair once
point_samples_once(o, vals, j, shell) ==
    LET nb == Sorted({n \in shell : n > j})
    IN  [n \in 1..Len(nb) |-> FInt(pair_fn(o, vals[j], vals[nb[n]]))]

\* lines 236 / 289: the samples point j adds to the bin's flat list
point_samples(o, vals, j, shell) ==
    LET nb == Sorted(shell)
    IN  [n \in 1..Len(nb) |-> FInt(pair_fn(o, vals[j], vals[nb[n]]))]

\* lines 229-236 / 282-289: the flat sample list of one bin
RECURSIVE linear_samples(_, _, _, _, _)
linear_samples(o, pts, vals, rbin, j) ==
    IF j > Len(pts) THEN << >>
    ELSE point_samples(o, vals, j, linear_shell(pts, j, rbin))
            \o linear_samples(o, pts, vals, rbin, j + 1)

NoResult == [xi |-> << >>, varxi |-> << >>, D |-> << >>, varD |-> << >>,
             r |-> << >>, set |-> {}]

\* lines 205-221 / 256-274: clear, build the tree, the bins, the result vectors
process_linear_begin(o) ==
    /\ op = o
    /\ pc = "start"
    /\ IF Len(data) = 0
       THEN \* KDTree(data) on an array without samples
            /\ pc' = "raised"
            /\ err' = "ValueError"
            /\ UNCHANGED <<rbins, i, shells, samples, stat, varstat, r, self>>
       ELSE /\ rbins' = linear_rbins(min_sep, max_sep, nbins)
            /\ stat' = zeros(Len(rbins'))
            /\ varstat' = zeros(Len(rbins'))
            /\ r' = [b \in 1..Len(rbins') |-> Mid(rbins'[b])]
            /\ i' = 0
            /\ pc' = "loop"
            /\ UNCHANGED <<err, shells, samples, self>>
    /\ UNCHANGED <<cat, c2s>>

\* lines 224-247 / 277-300: one pass of the loop over the radial bins
process_linear_bin(o) ==
    /\ op = o
    /\ pc = "loop"
    /\ i < Len(rbins)
    /\ LET rbin == rbins[i + 1]
           smp == linear_samples(o, data, k, rbin, 1)
       IN  /\ shells' = Append(shells,
                   [j \in 1..Len(data) |-> linear_shell(data, j, rbin)])
           /\ samples' = Append(samples, smp)
           /\ stat' = [stat EXCEPT ![i + 1] = mean(smp)]
           /\ varstat' = [varstat EXCEPT ![i + 1] = var(smp)]
    /\ i' = i + 1
    /\ UNCHANGED <<pc, err, rbins, r, self>>
    /\ UNCHANGED <<cat, c2s>>

\* lines 249-251 / 302-304: store the result vectors
process_linear_end(o) ==
    /\ op = o
    /\ pc = "loop"
    /\ i = Len(rbins)
    /\ self' = IF o = "xi"
               THEN [self EXCEPT !.xi = stat, !.varxi = varstat, !.r = r,
                                 !.set = @ \cup {"xi", "varxi", "r"}]
               ELSE [self EXCEPT !.D = stat, !.varD = varstat, !.r = r,
                                 !.set = @ \cup {"D", "varD", "r"}]
    /\ pc' = "done"
    /\ UNCHANGED <<err, rbins, i, shells, samples, stat, varstat, r>>
    /\ UNCHANGED <<cat, c2s>>

process_linear_xi ==
    \/ process_linear_begin("xi")
    \/ process_linear_bin("xi")
    \/ process_linear_end("xi")

process_linear_D ==
    \/ process_linear_begin("D")
    \/ process_linear_bin("D")
    \/ process_linear_end("D")

(***************************************************************************)
(* struct_dt.                                                              *)
(***************************************************************************)
\* lines 598-599: bounds = np.linspace(0, maxr, npoints+1)
dt_bins(mr, np) == BinsOf(linspace(FInt(0), mr, np + 1))

\* lines 613-614, 622: the shell of point j in bin
dt_shell(pts, j, bin) ==
    LET rlow == query_radius(pts, j, bin[1])
        rhigh == query_radius(pts, j, bin[2])
    IN  setdiff1d(rhigh, rlow)

\* line 624: np.mean(np.square(Y[indices]-Y[j]))
dt_point_mean(vals, j, indices) ==
    LET nb == Sorted(indices)
    IN  mean([n \in 1..Len(nb) |-> FInt(D_pair(vals[nb[n]], vals[j]))])

\* S as one flat list of the squared differences of every ordered pair
RECURSIVE dt_S_flat(_, _, _, _)
dt_S_flat(pts, vals, bin, j) ==
    IF j > Len(pts) THEN << >>
    ELSE LET nb == Sorted(dt_shell(pts, j, bin))
         IN  [n \in 1..Len(nb) |-> FInt(D_pair(vals[nb[n]], vals[j]))]
                \o dt_S_flat(pts, vals, bin, j + 1)

\* lines 616-624: the list S of one bin
RECURSIVE dt_S(_, _, _, _)
dt_S(pts, vals, bin, j) ==
    IF j > Len(pts) THEN << >>
    ELSE LET indices == dt_shell(pts, j, bin)
         IN  (IF Cardinality(indices) > 0
              THEN <<dt_point_mean(vals, j, indices)>> ELSE << >>)
                \o dt_S(pts, vals, bin, j + 1)

\* lines 598-607
struct_dt_begin ==
    /\ op = "dt"
    /\ pc = "start"
    /\ IF Len(data) = 0
       THEN \* BallTree(T) on an array without samples
            /\ pc' = "raised"
            /\ err' = "ValueError"
            /\ UNCHANGED <<rbins, i, shells, samples, stat, varstat, r, self>>
       ELSE /\ rbins' = dt_bins(maxr, npoints)
            /\ r' = zeros(Len(rbins') + 1)
            /\ stat' = zeros(Len(rbins') + 1)
            /\ i' = 0
            /\ pc' = "loop"
            /\ UNCHANGED <<err, shells, samples, varstat, self>>
    /\ UNCHANGED <<cat, c2s>>

\* lines 610-627: one pass of the loop over the bins
struct_dt_bin ==
    /\ op = "dt"
    /\ pc = "loop"
    /\ i < Len(rbins)
    /\ LET bin == rbins[i + 1]
           S == dt_S(data, k, bin, 1)
       IN  /\ shells' = Append(shells,
                   [j \in 1..Len(data) |-> dt_shell(data, j, bin)])
           /\ samples' = Append(samples, S)
           /\ r' = [r EXCEPT ![i + 2] = Mid(bin)]
           /\ stat' = [stat EXCEPT ![i + 2] = mean(S)]
    /\ i' = i + 1
    /\ UNCHANGED <<pc, err, rbins, varstat, self>>
    /\ UNCHANGED <<cat, c2s>>

\* lines 629-630: plot R, S_r; nothing is stored or returned
struct_dt_end ==
    /\ op = "dt"
    /\ pc = "loop"
    /\ i = Len(rbins)
    /\ pc' = "done"
    /\ UNCHANGED <<err, rbins, i, shells, samples, stat, varstat, r, self>>
    /\ UNCHANGED <<cat, c2s>>

struct_dt ==
    \/ struct_dt_begin
    \/ struct_dt_bin
    \/ struct_dt_end

(***************************************************************************)
(* corr2struct (save_file and save_graph not given).                       *)
(***************************************************************************)
\* s - v and s + v of a scalar and an array, c * v
scalar_minus(s, v) == [n \in 1..Len(v) |-> s - v[n]]

scalar_plus(s, v) == [n \in 1..Len(v) |-> s + v[n]]

times(c, v) == [n \in 1..Len(v) |-> c * v[n]]

\* line 566: struct = 2*(xi[0]-xi)
struct_of(xi) == times(2, scalar_minus(xi[1], xi))

\* varstruct with the auto term subtracted
varstruct_minus(varxi) == times(2, scalar_minus(varxi[1], varxi))

\* line 568: varstruct = 2*(varxi[0]+varxi)
varstruct_of(varxi) == times(2, scalar_plus(varxi[1], varxi))

\* struct[0:num], r[0:num]: a slice stops at the end of the array
slice_len(v, num) == IF num < Len(v) THEN num ELSE Len(v)

\* the exception corr2struct raises on these arguments, "none" if it returns
corr2struct_error(rr, xi, num) ==
    IF Len(xi) = 0 THEN "IndexError"                 \* line 566: xi[0]
    ELSE IF slice_len(xi, num) < 3 THEN "TypeError"  \* line 570: leastsq, 3 parameters
    ELSE IF num >= Len(rr) THEN "IndexError"         \* line 572: r[num]
    ELSE "none"

\* lines 561-594
corr2struct_return ==
    /\ c_pc = "called"
    /\ corr2struct_error(c_r, c_xi, num_points) = "none"
    /\ ret' = <<c_r, struct_of(c_xi), varstruct_of(c_varxi)>>
    /\ c_pc' = "returned"
    /\ UNCHANGED <<c_r, c_xi, c_varxi, num_points, c_err>>
    /\ UNCHANGED <<cat, est>>

corr2struct_raise ==
    /\ c_pc = "called"
    /\ corr2struct_error(c_r, c_xi, num_points) # "none"
    /\ c_err' = corr2struct_error(c_r, c_xi, num_points)
    /\ c_pc' = "raised"
    /\ UNCHANGED <<c_r, c_xi, c_varxi, num_points, ret>>
    /\ UNCHANGED <<cat, est>>

corr2struct ==
    \/ corr2struct_return
    \/ corr2struct_raise

(***************************************************************************)
(* Inputs.                                                                 *)
(***************************************************************************)
\* the separations a configuration is drawn from: 0, 1 and 0, 1, 2 for
\* catalogs on the grid; 1/2, 1, 3/2 for the unit square
MinSeps == {FInt(0), FInt(1)}

MaxSeps == {FInt(0), FInt(1), FInt(2)}

SquareSeps == {Frac(1, 2), FInt(1), Frac(3, 2)}

\* the points of the grid, in the row-major order in which
\* WaveCatalog.spatial_catalog lists them (lines 96-101)
GridPoints ==
    LET n == Cardinality(Coords)
        c == Sorted(Coords)
    IN  [m \in 1..(n * n) |-> <<c[((m - 1) \div n) + 1], c[((m - 1) % n) + 1]>>]

\* non-decreasing index sequences of length n over 1..m
Ascending(n, m) ==
    {s \in [1..n -> 1..m] : \A a \in 1..(n - 1) : s[a] <= s[a + 1]}

\* catalogs of n points in row-major order; a position may repeat
Positions(n) ==
    {[a \in 1..n |-> GridPoints[s[a]]] : s \in Ascending(n, Len(GridPoints))}

\* series of n samples at non-decreasing times
Series(n) ==
    LET t == Sorted(Times)
    IN  {[a \in 1..n |-> <<t[s[a]]>>] : s \in Ascending(n, Len(t))}

EstIdle ==
    /\ pc = "start"
    /\ err = "none"
    /\ rbins = << >>
    /\ i = 0
    /\ shells = << >>
    /\ samples = << >>
    /\ stat = << >>
    /\ varstat = << >>
    /\ r = << >>
    /\ self = NoResult

C2sIdle ==
    /\ c_r = << >>
    /\ c_xi = << >>
    /\ c_varxi = << >>
    /\ num_points = 0
    /\ c_pc = "idle"
    /\ c_err = "none"
    /\ ret = << >>

InitLinear ==
    /\ op \in {"xi", "D"}
    /\ \E n \in 0..MaxN : data \in Positions(n) /\ k \in [1..n -> Vals]
    /\ min_sep \in MinSeps
    /\ max_sep \in MaxSeps
    /\ nbins \in 0..MaxBins
    /\ maxr = FInt(0)
    /\ npoints = 0

InitDt ==
    /\ op = "dt"
    /\ \E n \in 0..MaxN : data \in Series(n) /\ k \in [1..n -> Vals]
    /\ min_sep = FInt(0)
    /\ max_sep = FInt(0)
    /\ nbins = 0
    /\ maxr \in MaxSeps
    /\ npoints \in 0..MaxBins

\* the catalog of the unit square: (0,0), (1,0), (0,1), (1,1)
Square == <<<<0, 0>>, <<1, 0>>, <<0, 1>>, <<1, 1>>>>

InitSquare ==
    /\ op \in {"xi", "D"}
    /\ data = Square
    /\ k \in [1..4 -> Vals]
    /\ min_sep \in SquareSeps
    /\ max_sep \in SquareSeps
    /\ nbins \in 0..MaxBins
    /\ maxr = FInt(0)
    /\ npoints = 0

CatIdle ==
    /\ op = "c2s"
    /\ data = << >>
    /\ k = << >>
    /\ min_sep = FInt(0)
    /\ max_sep = FInt(0)
    /\ nbins = 0
    /\ maxr = FInt(0)
    /\ npoints = 0

\* a correlation result of n entries: r strictly increasing from 0 or 1
InitC2s ==
    /\ \E n \in 0..MaxLen :
          /\ c_r \in {[a \in 1..n |-> r0 + a - 1] : r0 \in 0..1}
          /\ c_xi \in [1..n -> XiVals]
          /\ c_varxi \in [1..n -> VarVals]
    /\ num_points \in 0..(MaxLen + 1)
    /\ c_pc = "called"
    /\ c_err = "none"
    /\ ret = << >>

Init ==
    /\ InitLinear \/ InitDt
    /\ EstIdle
    /\ C2sIdle

Next ==
    \/ process_linear_xi
    \/ process_linear_D
    \/ struct_dt

Spec == Init /\ [][Next]_vars

\* the linear estimators on the unit-square catalog
InitSq == InitSquare /\ EstIdle /\ C2sIdle

NextSq == process_linear_xi \/ process_linear_D

SpecSquare == InitSq /\ [][NextSq]_vars

\* the converter on its own
InitConv == CatIdle /\ EstIdle /\ InitC2s

NextConv == corr2struct

SpecC2s == InitConv /\ [][NextConv]_vars

(***************************************************************************)
(* Vocabulary of the properties.                                           *)
(***************************************************************************)
Points == 1..Len(data)

\* the bins the outer loop has completed
BinsDone == 1..i

Linear == op \in {"xi", "D"}

\* lo <= dist(j, n) < hi, lo < dist(j, n) <= hi, for edges lo, hi >= 0
ClosedOpen(j, n, lo, hi) ==
    /\ FLeq(FMul(lo, lo), FInt(Dist2(data[j], data[n])))
    /\ FLess(FInt(Dist2(data[j], data[n])), FMul(hi, hi))

OpenClosed(j, n, lo, hi) ==
    /\ FLess(FMul(lo, lo), FInt(Dist2(data[j], data[n])))
    /\ FLeq(FInt(Dist2(data[j], data[n])), FMul(hi, hi))

\* dist(j, n) = e, for an edge e >= 0
AtEdge(j, n, e) == FInt(Dist2(data[j], data[n])) = FMul(e, e)

(***************************************************************************)
(* C1.  Claim: for every point and every bin (lower, upper) the shell is   *)
(* exactly the set of indices j # i with lower <= dist(i,j) < upper        *)
(* (closed-lower / open-upper).                                            *)
(* The code keeps the points with lower < dist <= upper: query_radius      *)
(* includes the points at the radius itself, in both queries.              *)
(***************************************************************************)
\* C1 as stated: closed-lower / open-upper (on the bins with 0 < lower < upper)
C1_ShellClosedOpen ==
    \A b \in BinsDone : \A j \in Points :
        (FLess(FInt(0), rbins[b][1]) /\ FLess(rbins[b][1], rbins[b][2])) =>
            shells[b][j] = {n \in Points \ {j} :
                               ClosedOpen(j, n, rbins[b][1], rbins[b][2])}

\* C1 amended: for every point i and every bin (lower, upper), lower <= upper,
\* the shell is exactly the set of indices j # i with lower < dist(i,j) <= upper:
\* a point at distance exactly upper is in the shell, one at exactly lower is not
C1_ShellOpenClosed ==
    \A b \in BinsDone : \A j \in Points :
        FLeq(rbins[b][1], rbins[b][2]) =>
            shells[b][j] = {n \in Points \ {j} :
                               OpenClosed(j, n, rbins[b][1], rbins[b][2])}

\* C1 witness: a completed bin with a point exactly at its lower edge (left out) and one
\* exactly at its upper edge (taken)
C1_Witness ==
    \E b \in BinsDone : \E j \in Points : \E n1, n2 \in Points \ {j} :
        /\ FLess(rbins[b][1], rbins[b][2])
        /\ AtEdge(j, n1, rbins[b][1]) /\ n1 \notin shells[b][j]
        /\ AtEdge(j, n2, rbins[b][2]) /\ n2 \in shells[b][j]

(***************************************************************************)
(* C2.  For every bin, the statistic stored by process_linear_xi /         *)
(* process_linear_D is the arithmetic mean of pair_fn(value_i, value_j)    *)
(* over the flat list of all ordered pairs (i, j) with j in the shell of i *)
(* for that bin; both (i, j) and (j, i) are present, so the list has an    *)
(* even number of samples.                                                 *)
(***************************************************************************)
\* the ordered pairs (j, n) with n in the shell of j for bin b
OrderedPairs(b) == {p \in Points \X Points : p[2] \in shells[b][p[1]]}

RECURSIVE SumOverPairs(_)
SumOverPairs(P) ==
    IF P = {} THEN 0
    ELSE LET p == CHOOSE q \in P : TRUE
         IN  pair_fn(op, k[p[1]], k[p[2]]) + SumOverPairs(P \ {p})

\* C2: each completed bin's statistic is the mean of pair_fn over the ordered
\* pairs of the shells, the sample list holds one sample per ordered pair, an
\* even number, with both orderings; the finished pass stores the statistics
C2_MeanOverOrderedPairs ==
    Linear =>
        /\ \A b \in BinsDone :
              LET P == OrderedPairs(b)
              IN  /\ Len(samples[b]) = Cardinality(P)
                  /\ Cardinality(P) % 2 = 0
                  /\ \A p \in P : <<p[2], p[1]>> \in P
                  /\ stat[b] = Frac(SumOverPairs(P), Cardinality(P))
        /\ pc = "done" =>
              /\ op = "xi" => self.xi = stat /\ "xi" \in self.set
              /\ op = "D" => self.D = stat /\ "D" \in self.set

\* C2 witness: a stored correlation bin holding six samples of mean -1/3
C2_Witness ==
    /\ op = "xi"
    /\ pc = "done"
    /\ \E b \in BinsDone : Len(samples[b]) = 6 /\ self.xi[b] = Frac(-1, 3)

(***************************************************************************)
(* C3.  When a bin has zero neighbor pairs the estimator reports NaN for   *)
(* that bin's statistic and its variance (struct_dt keeps no variance),    *)
(* never 0 and never an error, and the pass goes on to compute every       *)
(* remaining bin and ends with a full-length result.                       *)
(***************************************************************************)
NoPairs(b) == \A j \in Points : shells[b][j] = {}

\* the entry of bin b in the result vectors: struct_dt keeps entry 0 for lag 0
Entry(b) == IF op = "dt" THEN b + 1 ELSE b

BinsBuilt == pc \in {"loop", "done"}

\* the range and the number of bins the caller asked for
LowSep == IF op = "dt" THEN FInt(0) ELSE min_sep

HighSep == IF op = "dt" THEN maxr ELSE max_sep

BinsAsked == IF op = "dt" THEN npoints ELSE nbins

ValidConfig ==
    /\ Linear => FLess(FInt(0), min_sep)
    /\ FLess(LowSep, HighSep)
    /\ BinsAsked >= 1

\* edge number e (from 0) of n equal bins from lo to hi
EdgeOf(lo, hi, n, e) == FAdd(lo, FDivInt(FMul(FInt(e), FSub(hi, lo)), n))

\* C4 as stated: nbins bins, linearly spaced from min_sep to max_sep, contiguous
C4_NbinsContiguousBins ==
    (BinsBuilt /\ ValidConfig) =>
        /\ Len(rbins) = BinsAsked
        /\ \A b \in 1..Len(rbins) :
              /\ rbins[b][1] = EdgeOf(LowSep, HighSep, BinsAsked, b - 1)
              /\ rbins[b][2] = EdgeOf(LowSep, HighSep, BinsAsked, b)
              /\ FLess(rbins[b][1], rbins[b][2])
        /\ \A b \in 1..(Len(rbins) - 1) : rbins[b][2] = rbins[b + 1][1]

(***************************************************************************)
(* C5.  corr2struct returns, for every index k of the input,               *)
(* D[k] = 2*(xi[0] - xi[k]) and varD[k] = 2*(varxi[0] + varxi[k]), with r  *)
(* unchanged and the same length as the input; hence D[0] = 0, and when    *)
(* xi[0] = varxi[0] = 0 the result is D[k] = -2*xi[k] for k >= 1.          *)
(***************************************************************************)
\* C5: the returned triple is (r, 2*(xi[0]-xi), 2*(varxi[0]+varxi))
C5_StructFromCorr ==
    c_pc = "returned" =>
        /\ ret[1] = c_r
        /\ Len(ret[2]) = Len(c_xi)
        /\ Len(ret[3]) = Len(c_varxi)
        /\ Len(ret[2]) = Len(c_r)
        /\ \A n \in 1..Len(c_xi) :
              /\ ret[2][n] = 2 * (c_xi[1] - c_xi[n])
              /\ ret[3][n] = 2 * (c_varxi[1] + c_varxi[n])
        /\ ret[2][1] = 0
        /\ (c_xi[1] = 0 /\ c_varxi[1] = 0) =>
              \A n \in 2..Len(c_xi) : ret[2][n] = -2 * c_xi[n]

\* C5 witness: a returned conversion of a result with a zero auto term and a nonzero entry
C5_Witness ==
    /\ c_pc = "returned"
    /\ c_xi[1] = 0
    /\ c_varxi[1] = 0
    /\ \E n \in 2..Len(c_xi) : c_xi[n] # 0 /\ ret[2][n] = -2 * c_xi[n]
    /\ \E n \in 2..Len(c_varxi) : ret[3][n] = 2

(***************************************************************************)
(* C6.  The fit step fails when num_points > len(r) or num_points < 3, and *)
(* for every num_points with 3 <= num_points <= len(r), num_points =       *)
(* len(r) included, it does not fail on data size and returns.             *)
(* The code reads r[num_points] (line 572), which is out of range when     *)
(* num_points = len(r).                                                    *)
(***************************************************************************)
\* C6 as stated (whatever the exception's type): the call fails exactly when
\* num_points > len(r) or num_points < 3
C6_FailsOnlyOnTooFewPoints ==
    c_pc # "called" =>
        /\ (num_points > Len(c_r) \/ num_points < 3) => c_pc = "raised"
        /\ (3 <= num_points /\ num_points <= Len(c_r)) => c_pc = "returned"

(***************************************************************************)
(* C7.  Malformed inputs are rejected at call entry before any bin is      *)
(* computed: InvalidRangeError when min_sep <= 0, max_sep <= min_sep or    *)
(* nbins < 1, EmptyCatalogError when the catalog has fewer than 2 points,  *)
(* and no result entry is produced or stored.                              *)
(* The linear estimators check none of this (lines 202-221).               *)
(***************************************************************************)
InvalidRange ==
    \/ FLeq(min_sep, FInt(0))
    \/ FLeq(max_sep, min_sep)
    \/ nbins < 1

EmptyCatalog == Len(data) < 2

\* C7 as stated (whatever the exception's type): a malformed call raises at
\* entry and leaves no result
C7_MalformedRejected ==
    (Linear /\ pc # "start" /\ (InvalidRange \/ EmptyCatalog)) =>
        /\ pc = "raised"
        /\ err # "none"
        /\ i = 0
        /\ stat = << >> /\ varstat = << >> /\ r = << >>
        /\ self.set = {}

(***************************************************************************)
(* C8.  For the catalog (0,0), (1,0), (0,1), (1,1) with values             *)
(* (1,-1,-1,1) and the single bin (0.5, 1.5), the shell of (0,0) is        *)
(* exactly {(1,0), (0,1)}, the mean correlation statistic is -1.0 and the  *)
(* mean structure statistic is 4.0.                                        *)
(* The diagonal (1,1) is at distance sqrt 2 < 1.5 and is in the shell too. *)
(***************************************************************************)
SquareScenario ==
    /\ data = Square
    /\ k = <<1, -1, -1, 1>>
    /\ rbins = <<<<Frac(1, 2), Frac(3, 2)>>>>
    /\ i = 1

\* C8 as stated: shell {(1,0), (0,1)}, statistics -1 and 4
C8_SquareAsStated ==
    SquareScenario =>
        /\ shells[1][1] = {2, 3}
        /\ op = "xi" => stat[1] = FInt(-1)
        /\ op = "D" => stat[1] = FInt(4)

\* C8 amended: the shell of (0,0) is {(1,0), (0,1), (1,1)}, the mean
\* correlation statistic is -1/3 and the mean structure statistic is 8/3
C8_SquareWithDiagonal ==
    SquareScenario =>
        /\ shells[1][1] = {2, 3, 4}
        /\ \A j \in Points : shells[1][j] = Points \ {j}
        /\ Len(samples[1]) = 12
        /\ op = "xi" => stat[1] = Frac(-1, 3)
        /\ op = "D" => stat[1] = Frac(8, 3)

\* C8 witness: the finished correlation pass of the scenario
C8_Witness ==
    /\ SquareScenario
    /\ op = "xi"
    /\ pc = "done"
    /\ self.xi = <<Frac(-1, 3)>>

(***************************************************************************)
(* C9.  For every catalog (duplicate positions included) and every bin,    *)
(* bins with lower = 0 included, no shell contains the query point itself  *)
(* or any point at zero separation from it; a shell query with             *)
(* lower = upper = 0 returns the empty set.                                *)
(***************************************************************************)
\* C9: no shell of a completed bin holds the query point or a point at zero
\* separation, and the shells of a bin (0, 0) are empty
C9_NoZeroSeparation ==
    \A b \in BinsDone : \A j \in Points :
        /\ j \notin shells[b][j]
        /\ \A n \in shells[b][j] : Dist2(data[j], data[n]) > 0
        /\ rbins[b] = <<FInt(0), FInt(0)>> => shells[b][j] = {}

\* C9 witness: a completed bin with lower = 0 < upper over a catalog with a duplicate
\* position: the duplicate is left out, another point is taken
C9_Witness ==
    \E b \in BinsDone : \E j \in Points : \E n \in Points \ {j} :
        /\ data[n] = data[j]
        /\ rbins[b][1] = FInt(0)
        /\ FLess(FInt(0), rbins[b][2])
        /\ n \notin shells[b][j]
        /\ shells[b][j] # {}

(***************************************************************************)
(* C10.  Over a full pass across the contiguous bin sequence, every        *)
(* ordered pair (i, j) contributes a sample to at most one bin, also when  *)
(* dist(i,j) equals a shared edge of two adjacent bins; and every pair     *)
(* with min_sep <= dist(i,j) < max_sep contributes to exactly one bin.     *)
(* With the code's open-lower / closed-upper shells the pairs that         *)
(* contribute to exactly one bin are those with min_sep < dist <= max_sep. *)
(***************************************************************************)
\* the bins in which n is in the shell of j
BinsOfPair(j, n) == {b \in BinsDone : n \in shells[b][j]}

FullPass == pc = "done" /\ Len(rbins) >= 1

\* C10 as stated (on valid configurations and pairs of distinct positions)
C10_OneBinClosedOpen ==
    (FullPass /\ ValidConfig) =>
        \A j \in Points : \A n \in Points \ {j} :
            data[n] # data[j] =>
                /\ Cardinality(BinsOfPair(j, n)) <= 1
                /\ ClosedOpen(j, n, LowSep, HighSep) =>
                      Cardinality(BinsOfPair(j, n)) = 1

\* C10 amended: over a full pass across the bin sequence b_1..b_m, m >= 1
\* (b_1.lower is min_sep and b_m.upper is max_sep; 0 and maxr for struct_dt),
\* every ordered pair contributes to at most one bin, also at a shared edge,
\* and every pair with b_1.lower < dist <= b_m.upper contributes to exactly one
C10_OneBinOpenClosed ==
    FullPass =>
        /\ rbins[1][1] = LowSep
        /\ rbins[Len(rbins)][2] = HighSep
        /\ \A j \in Points : \A n \in Points :
              /\ Cardinality(BinsOfPair(j, n)) <= 1
              /\ OpenClosed(j, n, rbins[1][1], rbins[Len(rbins)][2]) =>
                    Cardinality(BinsOfPair(j, n)) = 1

\* C10 witness: a finished pass in which a pair lies exactly on the shared edge of the
\* first two bins: it is counted in the first and not in the second
C10_Witness ==
    /\ pc = "done"
    /\ Len(rbins) >= 2
    /\ FLess(rbins[1][1], rbins[1][2])
    /\ \E j \in Points : \E n \in Points \ {j} :
          /\ AtEdge(j, n, rbins[1][2])
          /\ BinsOfPair(j, n) = {1}

(***************************************************************************)
(* struct_dt on its own, on series of up to MaxSeries samples.             *)
(***************************************************************************)
InitSeries ==
    /\ op = "dt"
    /\ \E n \in 0..MaxSeries : data \in Series(n) /\ k \in [1..n -> Vals]
    /\ min_sep = FInt(0)
    /\ max_sep = FInt(0)
    /\ nbins = 0
    /\ maxr \in MaxSeps
    /\ npoints \in 0..MaxBins
    /\ EstIdle
    /\ C2sIdle

NextDt == struct_dt

SpecDt == InitSeries /\ [][NextDt]_vars

(***************************************************************************)
(* C11.  Claim: struct_dt computes, for every lag bin, the same value as   *)
(* the pair-statistic estimator with the structure pairing: the mean of    *)
(* (Y_i - Y_j)^2 over the flat list of all ordered pairs (i, j) with       *)
(* |t_i - t_j| in the bin, also when the points have shells of different   *)
(* sizes.                                                                  *)
(* struct_dt averages each point's own mean (lines 623-624) and then the   *)
(* points' means (line 627): a pair counts with weight 1/len(shell), and   *)
(* the two values differ once the shells differ in size.                   *)
(***************************************************************************)
\* the flat mean of the squared differences over the ordered pairs of bin b
FlatMean(b) ==
    Frac(SumOverPairs(OrderedPairs(b)), Cardinality(OrderedPairs(b)))

\* the points with a neighbor in bin b
WithNeighbors(b) == {j \in Points : shells[b][j] # {}}

\* the mean squared difference of point j to its shell in bin b
PointMean(b, j) ==
    Frac(SumOverPairs({j} \X shells[b][j]), Cardinality(shells[b][j]))

RECURSIVE SumOfPointMeans(_, _)
SumOfPointMeans(b, J) ==
    IF J = {} THEN FInt(0)
    ELSE LET j == CHOOSE m \in J : TRUE
         IN  FAdd(PointMean(b, j), SumOfPointMeans(b, J \ {j}))

\* all the non-empty shells of bin b have one size
EqualShells(b) ==
    \A j, n \in WithNeighbors(b) :
        Cardinality(shells[b][j]) = Cardinality(shells[b][n])

\* C11 as stated: every completed lag bin holds the flat ordered-pair mean
C11_FlatPairMean ==
    op = "dt" => \A b \in BinsDone : stat[b + 1] = FlatMean(b)

\* C11 amended: for every lag bin struct_dt computes the mean, over the points
\* that have a neighbor in the bin, of each point's own mean of (Y_i - Y_j)^2
\* over its shell (NaN when no point has one); this is the flat ordered-pair
\* mean when all the non-empty shells of the bin have the same size
C11_MeanOfPointMeans ==
    op = "dt" =>
        \A b \in BinsDone :
            /\ Len(samples[b]) = Cardinality(WithNeighbors(b))
            /\ stat[b + 1] = FDivInt(SumOfPointMeans(b, WithNeighbors(b)),
                                     Cardinality(WithNeighbors(b)))
            /\ EqualShells(b) => stat[b + 1] = FlatMean(b)

\* C11 witness: a finished pass with a bin whose shells differ in size and
\* whose value is not the flat ordered-pair mean
C11_Witness ==
    /\ op = "dt"
    /\ pc = "done"
    /\ \E b \in BinsDone :
          /\ ~EqualShells(b)
          /\ ~IsNaN(stat[b + 1])
          /\ stat[b + 1] # FlatMean(b)

=============================================================================
